---- MODULE Spec2Model ----
(***************************************************************************)
(* Model of map_merge_3d: pairwise transform estimation, global pose       *)
(* propagation (map_merging.cpp) and reciprocal feature matching           *)
(* (matching.cpp).                                                         *)
(*                                                                         *)
(* Rigid transforms (Eigen::Matrix4f, homogeneous) are modelled by the     *)
(* homogeneous matrices [[a, b], [0, w]] over the integers modulo Modulus: *)
(* a is the rotation block, b the translation, w the homogeneous corner.   *)
(* The all-zero matrix is the sentinel; a non-finite matrix (the inverse   *)
(* of a singular one) is the value with nan = TRUE.                        *)
(***************************************************************************)
EXTENDS Integers, Sequences, FiniteSets, TLC

\* ----------------------------------------------------------------- bounds
MaxMaps == 4
FullMaps == 2
MaxComposeMaps == 3
Modulus == 3
MaxScore == 2
MaxThreshold == 1
SizeBits == 3
MaxResolution == 2
MaxSource == 6
MaxTarget == 2
MaxFeature == 2
MaxKeypoints == 3
MaxPosition == 2
MaxInlierThreshold == 1

\* ------------------------------------------------------ program constants
matching_k == 5
\* the precision isIdentity() compares with when none is given, in steps of
\* the grid the keypoints lie on
IdentityPrecision == 1

VARIABLES
  pc,                   \* position in the pipeline
  n,                    \* clouds.size()
  keypoints,            \* per map, whether keypoints[i]->points.size() > 0
  confidence_threshold, \* params.confidence_threshold
  pairwise_transforms,  \* std::vector<TransformEstimate>
  est_pos,              \* position of the estimation loop in pairwise_transforms
  component,            \* largest connected component (its estimates)
  span_tree,            \* edges of the maximum spanning tree
  reference_frame,      \* span_tree_centers[0]
  walk,                 \* tree edges in the order walkBreadthFirst visits them
  global_transforms,    \* the Global Transform Table
  clouds,               \* the maps handed to composeMaps
  resolution,           \* the output resolution handed to composeMaps
  merged,               \* composeMaps' accumulated cloud before down-sampling
  included,             \* indices of the maps composeMaps accumulated
  result,               \* composeMaps' returned cloud
  source_fields,        \* source_descriptors->fields
  target_fields,        \* target_descriptors->fields
  source_descriptors,   \* the source descriptor set, one feature value per index
  target_descriptors,   \* the target descriptor set
  source_tree,          \* kd-tree over the source descriptors: per query, its k nearest
  target_tree,          \* kd-tree over the target descriptors: per query, its k nearest
  correspondences,      \* the correspondences found, handed on to the estimation
  source_keypoints,     \* position of each source keypoint
  target_keypoints,     \* position of each target keypoint
  inlier_threshold,     \* the consensus search's inlier threshold
  best_transformation,  \* ransac.getBestTransformation()
  inliers,              \* the inlier correspondences handed back
  estimated_transform   \* estimateTransformFromCorrespondences' result

mergeVars == <<n, keypoints, confidence_threshold, pairwise_transforms, est_pos,
               component, span_tree, reference_frame, walk, global_transforms,
               clouds, resolution, merged, included, result>>
matchVars == <<source_fields, target_fields, source_descriptors, target_descriptors,
               source_tree, target_tree, correspondences>>
fitVars == <<source_keypoints, target_keypoints, inlier_threshold, best_transformation,
             inliers, estimated_transform>>
vars == <<pc, mergeVars, matchVars, fitVars>>

\* --------------------------------------------------------------- matrices
Mat(a, b, w) == [a |-> a, b |-> b, w |-> w, nan |-> FALSE]
Zero == Mat(0, 0, 0)
Identity == Mat(1, 0, 1)
NonFinite == [a |-> 0, b |-> 0, w |-> 0, nan |-> TRUE]

Units == {a \in 1..(Modulus - 1) : \E c \in 1..(Modulus - 1) : (a * c) % Modulus = 1}
Rigid == {Mat(a, b, 1) : a \in Units, b \in 0..(Modulus - 1)}
Matrices == Rigid \cup {Zero, NonFinite}

\* Eigen operator*: a product with a non-finite factor is non-finite
Mul(x, y) ==
  IF x.nan \/ y.nan THEN NonFinite
  ELSE Mat((x.a * y.a) % Modulus, (x.a * y.b + x.b * y.w) % Modulus,
           (x.w * y.w) % Modulus)

\* Eigen inverse(): cofactors divided by the determinant; a zero determinant
\* divides by zero and leaves non-finite entries
Inverse(m) ==
  IF m.nan \/ m.a \notin Units \/ m.w \notin Units THEN NonFinite
  ELSE CHOOSE x \in {Mat(a, b, w) : a \in Units, b \in 0..(Modulus - 1), w \in Units} :
         Mul(m, x) = Mat(1, 0, 1)

isZero(m) == ~m.nan /\ m.a = 0 /\ m.b = 0 /\ m.w = 0
isIdentity(m) == ~m.nan /\ m.a = 1 /\ m.b = 0 /\ m.w = 1

\* ------------------------------------------------------------ confidence
\* a double kept exactly as a ratio; den = 0 is +infinity
Ratio(num, den) == [num |-> num, den |-> den]
Reciprocal(score) == Ratio(1, score)
\* c < t for a confidence c and an integer threshold t
LessThan(c, t) == c.den # 0 /\ c.num < t * c.den
\* c1 > c2 for two confidences
Greater(c1, c2) ==
  IF c2.den = 0 THEN FALSE
  ELSE IF c1.den = 0 THEN TRUE
  ELSE c1.num * c2.den > c2.num * c1.den
isInfinite(c) == c.den = 0 /\ c.num # 0

TransformEstimate(i, j) ==
  [source_idx |-> i, target_idx |-> j, transform |-> Zero, confidence |-> Ratio(0, 1)]

Range(s) == {s[k] : k \in DOMAIN s}
Max(S) == CHOOSE x \in S : \A y \in S : y <= x
Min(S) == CHOOSE x \in S : \A y \in S : x <= y

\* ------------------------------------------------------------------ graph
\* number of nodes named by the estimates: the largest index, plus one
numberOfNodesInEstimates(ests) ==
  1 + Max({0} \cup {ests[k].source_idx : k \in DOMAIN ests}
              \cup {ests[k].target_idx : k \in DOMAIN ests})

\* nodes connected to the nodes of S by the edges (a sequence of estimates)
RECURSIVE Connected(_, _)
Connected(S, edges) ==
  LET T == S \cup {edges[k].target_idx : k \in {x \in DOMAIN edges : edges[x].source_idx \in S}}
             \cup {edges[k].source_idx : k \in {x \in DOMAIN edges : edges[x].target_idx \in S}}
  IN IF T = S THEN S ELSE Connected(T, edges)

\* the estimates at or above the threshold
aboveThreshold(ests, threshold) ==
  LET Keep(e) == ~LessThan(e.confidence, threshold)
  IN SelectSeq(ests, Keep)

\* node set of the largest connected component of the thresholded graph; of
\* several largest ones, the one discovered first (holding the lowest index)
largestComponentNodes(ests, threshold) ==
  LET kept == aboveThreshold(ests, threshold)
      nodes == 0..(numberOfNodesInEstimates(ests) - 1)
      comps == {Connected({u}, kept) : u \in nodes}
      best == Max({Cardinality(c) : c \in comps})
      first == Min({Min(c) : c \in {x \in comps : Cardinality(x) = best}})
  IN Connected({first}, kept)

largestConnectedComponent(ests, threshold) ==
  LET comp == largestComponentNodes(ests, threshold)
      In(e) == e.source_idx \in comp /\ e.target_idx \in comp
  IN SelectSeq(aboveThreshold(ests, threshold), In)

\* nodes of a component given by its estimates; an empty list is the
\* singleton component of node 0
componentNodes(comp) ==
  IF comp = <<>> THEN {0}
  ELSE {comp[k].source_idx : k \in DOMAIN comp} \cup {comp[k].target_idx : k \in DOMAIN comp}

\* stable sort by descending confidence (ties keep discovery order)
RECURSIVE InsertByWeight(_, _)
InsertByWeight(e, sorted) ==
  IF sorted = <<>> THEN <<e>>
  ELSE IF Greater(e.confidence, Head(sorted).confidence) THEN <<e>> \o sorted
  ELSE <<Head(sorted)>> \o InsertByWeight(e, Tail(sorted))

RECURSIVE SortByWeight(_)
SortByWeight(ests) ==
  IF ests = <<>> THEN <<>>
  ELSE InsertByWeight(ests[Len(ests)], SortByWeight(SubSeq(ests, 1, Len(ests) - 1)))

\* Kruskal on descending weight: an edge joins the tree when it links two
\* nodes the tree does not connect yet
RECURSIVE Kruskal(_, _)
Kruskal(sorted, tree) ==
  IF sorted = <<>> THEN tree
  ELSE LET e == Head(sorted)
       IN IF e.target_idx \in Connected({e.source_idx}, tree)
          THEN Kruskal(Tail(sorted), tree)
          ELSE Kruskal(Tail(sorted), Append(tree, e))

\* neighbours of u in the tree, in the order its edges were added
RECURSIVE Neighbours(_, _)
Neighbours(u, tree) ==
  IF tree = <<>> THEN <<>>
  ELSE LET e == Head(tree)
           here == IF e.source_idx = u THEN <<e.target_idx>>
                   ELSE IF e.target_idx = u THEN <<e.source_idx>>
                   ELSE <<>>
       IN here \o Neighbours(u, Tail(tree))

\* Graph::walkBreadthFirst: the edges (from, to) in the order a FIFO
\* traversal from the root discovers them
RECURSIVE BreadthFirst(_, _, _, _)
BreadthFirst(queue, visited, tree, acc) ==
  IF queue = <<>> THEN acc
  ELSE LET u == Head(queue)
           IsNew(v) == v \notin visited
           next == SelectSeq(Neighbours(u, tree), IsNew)
           edges == [k \in 1..Len(next) |-> [from |-> u, to |-> next[k]]]
       IN BreadthFirst(Tail(queue) \o next, visited \cup Range(next), tree, acc \o edges)

walkBreadthFirst(tree, root) == BreadthFirst(<<root>>, {root}, tree, <<>>)

\* hop distance from the root to the farthest node of the tree
RECURSIVE Depth(_, _, _)
Depth(frontier, visited, tree) ==
  LET next == {v \in UNION {Range(Neighbours(u, tree)) : u \in frontier} : v \notin visited}
  IN IF next = {} THEN 0 ELSE 1 + Depth(next, visited \cup next, tree)

Eccentricity(u, tree) == Depth({u}, {u}, tree)

RECURSIVE Ascending(_)
Ascending(S) == IF S = {} THEN <<>> ELSE <<Min(S)>> \o Ascending(S \ {Min(S)})

\* the tree centers: the nodes of least eccentricity, in index order
treeCenters(comp, tree) ==
  LET nodes == componentNodes(comp)
      least == Min({Eccentricity(u, tree) : u \in nodes})
  IN Ascending({u \in nodes : Eccentricity(u, tree) = least})

findMaxSpanningTree(comp) ==
  LET tree == Kruskal(SortByWeight(comp), <<>>)
  IN [span_tree |-> tree, span_tree_centers |-> treeCenters(comp, tree)]

\* --------------------------------------------------- global pose propagation
\* getTransform with its two branches exchanged
getTransformExchanged(ests, from, to) ==
  LET hits == {k \in DOMAIN ests :
                 \/ ests[k].source_idx = from /\ ests[k].target_idx = to
                 \/ ests[k].source_idx = to /\ ests[k].target_idx = from}
  IN IF hits = {} THEN Zero
     ELSE LET est == ests[Min(hits)]
          IN IF est.source_idx = from /\ est.target_idx = to
             THEN est.transform
             ELSE Inverse(est.transform)

getTransform(ests, from, to) ==
  LET hits == {k \in DOMAIN ests :
                 \/ ests[k].source_idx = from /\ ests[k].target_idx = to
                 \/ ests[k].source_idx = to /\ ests[k].target_idx = from}
  IN IF hits = {} THEN Zero
     ELSE LET est == ests[Min(hits)]
          IN IF est.source_idx = from /\ est.target_idx = to
             THEN Inverse(est.transform)
             ELSE est.transform

\* the callback of walkBreadthFirst applied to each visited edge in turn
RECURSIVE Chain(_, _, _)
Chain(table, comp, edges) ==
  IF edges = <<>> THEN table
  ELSE LET edge == Head(edges)
       IN Chain([table EXCEPT ![edge.to] =
                   Mul(table[edge.from], getTransform(comp, edge.from, edge.to))],
                comp, Tail(edges))

\* the table initialised to the identity instead of the sentinel
initialTableAllIdentity(nodes_count, reference) ==
  [[k \in 0..(nodes_count - 1) |-> Identity] EXCEPT ![reference] = Identity]

initialTable(nodes_count, reference) ==
  [[k \in 0..(nodes_count - 1) |-> Zero] EXCEPT ![reference] = Identity]

\* computeGlobalTransforms without the assignment of the identity to the
\* reference frame
computeGlobalTransformsNoReference(ests, threshold) ==
  LET comp == largestConnectedComponent(ests, threshold)
      found == findMaxSpanningTree(comp)
      nodes_count == numberOfNodesInEstimates(ests)
      reference == found.span_tree_centers[1]
      edges == walkBreadthFirst(found.span_tree, reference)
  IN [component |-> comp, span_tree |-> found.span_tree, reference_frame |-> reference,
      walk |-> edges,
      global_transforms |-> Chain([k \in 0..(nodes_count - 1) |-> Zero], comp, edges)]

\* computeGlobalTransforms walking the component itself, no spanning tree
\* taken of it
computeGlobalTransformsNoTree(ests, threshold) ==
  LET comp == largestConnectedComponent(ests, threshold)
      nodes_count == numberOfNodesInEstimates(ests)
      reference == treeCenters(comp, comp)[1]
      edges == walkBreadthFirst(comp, reference)
  IN [component |-> comp, span_tree |-> comp, reference_frame |-> reference,
      walk |-> edges,
      global_transforms |-> Chain(initialTable(nodes_count, reference), comp, edges)]

computeGlobalTransforms(ests, threshold) ==
  LET comp == largestConnectedComponent(ests, threshold)
      found == findMaxSpanningTree(comp)
      nodes_count == numberOfNodesInEstimates(ests)
      reference == found.span_tree_centers[1]
      edges == walkBreadthFirst(found.span_tree, reference)
  IN [component |-> comp, span_tree |-> found.span_tree, reference_frame |-> reference,
      walk |-> edges,
      global_transforms |-> Chain(initialTable(nodes_count, reference), comp, edges)]

\* ------------------------------------------------------------ map composer
NaNPoint == -1
CloudSet == {<<0>>, <<1, Modulus - 1>>}

\* pcl::transformPointCloud: rotation block and translation applied per point
transformPoint(m, x) == IF m.nan \/ x = NaNPoint THEN NaNPoint ELSE (m.a * x + m.b) % Modulus
transformPointCloud(cloud, m) == [k \in DOMAIN cloud |-> transformPoint(m, cloud[k])]

\* voxel grid filter: one point per occupied voxel, non-finite points dropped
downSample(cloud, res) ==
  {(x \div res) * res : x \in {y \in Range(cloud) : y # NaNPoint}}

tableSize(table) == Cardinality(DOMAIN table)

\* the accumulation loop without the isZero test
RECURSIVE accumulateAll(_, _, _, _)
accumulateAll(cls, transforms, i, acc) ==
  IF i >= tableSize(cls) THEN acc
  ELSE accumulateAll(cls, transforms, i + 1,
                     [cloud |-> acc.cloud \o transformPointCloud(cls[i], transforms[i]),
                      maps |-> acc.maps \cup {i}])

\* the accumulation loop of composeMaps from map i on
RECURSIVE accumulate(_, _, _, _)
accumulate(cls, transforms, i, acc) ==
  IF i >= tableSize(cls) THEN acc
  ELSE IF isZero(transforms[i]) THEN accumulate(cls, transforms, i + 1, acc)
  ELSE accumulate(cls, transforms, i + 1,
                  [cloud |-> acc.cloud \o transformPointCloud(cls[i], transforms[i]),
                   maps |-> acc.maps \cup {i}])

composeMaps(cls, transforms, res) ==
  IF tableSize(cls) # tableSize(transforms)
  THEN [thrown |-> TRUE, merged |-> <<>>, included |-> {}, result |-> {}]
  ELSE LET acc == accumulate(cls, transforms, 0, [cloud |-> <<>>, maps |-> {}])
       IN [thrown |-> FALSE, merged |-> acc.cloud, included |-> acc.maps,
           result |-> downSample(acc.cloud, res)]

\* ------------------------------------------------------ estimateMapsTransforms
\* size_t arithmetic
SizeT(x) == x % (2 ^ SizeBits)

\* the inner loop asking for keypoints on either map instead of both
RECURSIVE innerLoopEither(_, _, _, _, _)
innerLoopEither(count, kps, i, j, acc) ==
  IF j < count
  THEN innerLoopEither(count, kps, i, j + 1,
                       IF kps[i] \/ kps[j] THEN Append(acc, TransformEstimate(i, j)) ELSE acc)
  ELSE acc

RECURSIVE innerLoop(_, _, _, _, _)
innerLoop(count, kps, i, j, acc) ==
  IF j < count
  THEN innerLoop(count, kps, i, j + 1,
                 IF kps[i] /\ kps[j] THEN Append(acc, TransformEstimate(i, j)) ELSE acc)
  ELSE acc

RECURSIVE outerLoop(_, _, _, _)
outerLoop(count, kps, i, acc) ==
  IF i < SizeT(count - 1)
  THEN outerLoop(count, kps, i + 1, innerLoop(count, kps, i, i + 1, acc))
  ELSE acc

generatePairs(count, kps) == outerLoop(count, kps, 0, <<>>)

\* how many times the body of the outer loop runs from i on
RECURSIVE outerLoopPasses(_, _)
outerLoopPasses(count, i) ==
  IF i < SizeT(count - 1) THEN 1 + outerLoopPasses(count, i + 1) ELSE 0

\* what estimateTransform may return: a rigid transform, or the sentinel
\* when the strategy found no model
EstimatorOutputs == Rigid \cup {Zero}
\* what transformScore may return: a mean residual, 0 for a perfect fit
Scores == 0..MaxScore
\* with more than FullMaps maps the enumeration draws each pair's outcome
\* from two: a translation with a low residual, or a reflection with a
\* higher one
CoreEstimates ==
  {[transform |-> Mat(1, 1, 1), score |-> 1],
   [transform |-> Mat(Modulus - 1, 0, 1), score |-> 2]}
estimatesFor(count) ==
  IF count <= FullMaps THEN [transform : EstimatorOutputs, score : Scores]
  ELSE CoreEstimates
\* the maps handed to composeMaps after estimateMapsTransforms: every map
\* holds the same cloud
cloudLists(count) == {[i \in 0..(count - 1) |-> c] : c \in CloudSet}

storeEstimate(estimate, transform, score) ==
  [estimate EXCEPT !.transform = transform, !.confidence = Reciprocal(score)]

\* ----------------------------------------------------------------- actions
Init ==
  /\ pc = "generate"
  /\ n \in 0..MaxMaps
  /\ keypoints \in [0..(n - 1) -> BOOLEAN]
  /\ confidence_threshold \in 0..MaxThreshold
  /\ pairwise_transforms = <<>>
  /\ est_pos = 1
  /\ component = <<>>
  /\ span_tree = <<>>
  /\ reference_frame = 0
  /\ walk = <<>>
  /\ global_transforms = <<>>
  /\ clouds = <<>>
  /\ resolution = 1
  /\ merged = <<>>
  /\ included = {}
  /\ result = {}
  /\ source_fields = {}
  /\ target_fields = {}
  /\ source_descriptors = <<>>
  /\ target_descriptors = <<>>
  /\ source_tree = <<>>
  /\ target_tree = <<>>
  /\ correspondences = <<>>
  /\ source_keypoints = <<>>
  /\ target_keypoints = <<>>
  /\ inlier_threshold = 0
  /\ best_transformation = Identity
  /\ inliers = <<>>
  /\ estimated_transform = Zero

GeneratePairs ==
  /\ pc = "generate"
  /\ pairwise_transforms' = generatePairs(n, keypoints)
  /\ est_pos' = 1
  /\ pc' = "estimate"
  /\ UNCHANGED <<n, keypoints, confidence_threshold, component, span_tree,
                 reference_frame, walk, global_transforms, clouds, resolution,
                 merged, included, result>>
  /\ UNCHANGED matchVars
  /\ UNCHANGED fitVars

EstimatePair ==
  /\ pc = "estimate"
  /\ est_pos <= Len(pairwise_transforms)
  /\ \E out \in estimatesFor(n) :
       pairwise_transforms' =
         [pairwise_transforms EXCEPT
            ![est_pos] = storeEstimate(pairwise_transforms[est_pos], out.transform, out.score)]
  /\ est_pos' = est_pos + 1
  /\ UNCHANGED <<pc, n, keypoints, confidence_threshold, component, span_tree,
                 reference_frame, walk, global_transforms, clouds, resolution,
                 merged, included, result>>
  /\ UNCHANGED matchVars
  /\ UNCHANGED fitVars

ComputeGlobalTransforms ==
  /\ pc = "estimate"
  /\ est_pos > Len(pairwise_transforms)
  /\ LET out == computeGlobalTransforms(pairwise_transforms, confidence_threshold)
     IN /\ component' = out.component
        /\ span_tree' = out.span_tree
        /\ reference_frame' = out.reference_frame
        /\ walk' = out.walk
        /\ global_transforms' = out.global_transforms
  /\ pc' = "compose"
  /\ UNCHANGED <<n, keypoints, confidence_threshold, pairwise_transforms, est_pos,
                 clouds, resolution, merged, included, result>>
  /\ UNCHANGED matchVars
  /\ UNCHANGED fitVars

ComposeMaps ==
  /\ pc = "compose"
  /\ \E cls \in cloudLists(n), res \in 1..MaxResolution :
       LET out == composeMaps(cls, global_transforms, res)
       IN /\ clouds' = cls
          /\ resolution' = res
          /\ merged' = out.merged
          /\ included' = out.included
          /\ result' = out.result
          /\ pc' = IF out.thrown THEN "error" ELSE "done"
  /\ UNCHANGED <<n, keypoints, confidence_threshold, pairwise_transforms, est_pos,
                 component, span_tree, reference_frame, walk, global_transforms>>
  /\ UNCHANGED matchVars
  /\ UNCHANGED fitVars

Next == GeneratePairs \/ EstimatePair \/ ComputeGlobalTransforms \/ ComposeMaps

Spec == Init /\ [][Next]_vars

\* composeMaps on its own: any table against any maps
ComposeAny ==
  /\ pc = "compose"
  /\ \E cls \in [0..(n - 1) -> CloudSet], res \in 1..MaxResolution :
       LET out == composeMaps(cls, global_transforms, res)
       IN /\ clouds' = cls
          /\ resolution' = res
          /\ merged' = out.merged
          /\ included' = out.included
          /\ result' = out.result
          /\ pc' = IF out.thrown THEN "error" ELSE "done"
  /\ UNCHANGED <<n, keypoints, confidence_threshold, pairwise_transforms, est_pos,
                 component, span_tree, reference_frame, walk, global_transforms>>
  /\ UNCHANGED matchVars
  /\ UNCHANGED fitVars

InitCompose ==
  /\ pc = "compose"
  /\ n \in 0..MaxComposeMaps
  /\ \E size \in 0..MaxComposeMaps : global_transforms \in [0..(size - 1) -> Matrices]
  /\ keypoints = <<>>
  /\ confidence_threshold = 0
  /\ pairwise_transforms = <<>>
  /\ est_pos = 1
  /\ component = <<>>
  /\ span_tree = <<>>
  /\ reference_frame = 0
  /\ walk = <<>>
  /\ clouds = <<>>
  /\ resolution = 1
  /\ merged = <<>>
  /\ included = {}
  /\ result = {}
  /\ source_fields = {}
  /\ target_fields = {}
  /\ source_descriptors = <<>>
  /\ target_descriptors = <<>>
  /\ source_tree = <<>>
  /\ target_tree = <<>>
  /\ correspondences = <<>>
  /\ source_keypoints = <<>>
  /\ target_keypoints = <<>>
  /\ inlier_threshold = 0
  /\ best_transformation = Identity
  /\ inliers = <<>>
  /\ estimated_transform = Zero

SpecCompose == InitCompose /\ [][ComposeAny]_vars

\* ---------------------------------------------------- correspondence matcher
\* squared distance in feature space
featureDistance(x, y) == (x - y) * (x - y)

cloudSize(cloud) == Cardinality(DOMAIN cloud)

\* nearestKSearch with the results sorted farthest first
nearestKSearchFarthest(cloud, query, count, order) ==
  LET tie(a) == IF order = "asc" THEN a ELSE cloudSize(cloud) - 1 - a
      key == [a \in DOMAIN cloud |-> (0 - featureDistance(cloud[a], query)) * cloudSize(cloud) + tie(a)]
      rank == [a \in DOMAIN cloud |-> Cardinality({b \in DOMAIN cloud : key[b] < key[a]})]
      size == IF count > cloudSize(cloud) THEN cloudSize(cloud) ELSE count
  IN [r \in 0..(size - 1) |-> CHOOSE a \in DOMAIN cloud : rank[a] = r]

\* kd-tree nearestKSearch with sorted results: the indices of the
\* min(count, size) descriptors nearest to the query, nearest first; the
\* search order settles which of two equidistant descriptors comes first.
\* The result vector is resized to that many entries.
nearestKSearch(cloud, query, count, order) ==
  LET tie(a) == IF order = "asc" THEN a ELSE cloudSize(cloud) - 1 - a
      key == [a \in DOMAIN cloud |-> featureDistance(cloud[a], query) * cloudSize(cloud) + tie(a)]
      rank == [a \in DOMAIN cloud |-> Cardinality({b \in DOMAIN cloud : key[b] < key[a]})]
      size == IF count > cloudSize(cloud) THEN cloudSize(cloud) ELSE count
  IN [r \in 0..(size - 1) |-> CHOOSE a \in DOMAIN cloud : rank[a] = r]

\* the kd-tree built over a cloud, as its answers to the k-nearest searches
\* the loop makes
setInputCloud(cloud, order) ==
  [query \in 0..MaxFeature |-> nearestKSearch(cloud, query, matching_k, order)]

\* matches of source descriptor i among the target descriptors
forwardSearch(i) == target_tree[source_descriptors[i]]

\* matches of target descriptor match among the source descriptors
backwardSearch(match) == source_tree[target_descriptors[match]]

\* what k_indices[j] and k_squared_distances[j] read: the j-th forward result,
\* or, past the end of the resized vectors, whatever the memory holds
readMatch(i, j, past) ==
  LET k_indices == forwardSearch(i)
  IN IF j < cloudSize(k_indices)
     THEN [match |-> k_indices[j],
           dist |-> featureDistance(target_descriptors[k_indices[j]], source_descriptors[i])]
     ELSE [match |-> past.index, dist |-> past.dist]

\* the loop without the back search: the j-th forward match is taken as is
crossMatchUnchecked(i, j, past) ==
  LET read == readMatch(i, j, past)
  IN <<[index_query |-> i, index_match |-> read.match, distance |-> read.dist]>>

\* the cross-matching loop over the forward matches from j on: the first
\* match whose back-matches hold i, if any
RECURSIVE crossMatch(_, _, _)
crossMatch(i, j, past) ==
  IF j >= matching_k THEN <<>>
  ELSE LET read == readMatch(i, j, past)
       IN IF i \in Range(backwardSearch(read.match))
          THEN <<[index_query |-> i, index_match |-> read.match, distance |-> read.dist]>>
          ELSE crossMatch(i, j + 1, past)

\* whether the loop for source i reads k_indices past its end: the search
\* returned fewer than k matches and none of them cross-matches
readsPastEnd(i) ==
  LET k_indices == forwardSearch(i)
  IN /\ cloudSize(k_indices) < matching_k
     /\ \A j \in DOMAIN k_indices : i \notin Range(backwardSearch(k_indices[j]))

\* what the reads past the end may yield: some target index and some
\* distance. The loop stops at the first read that cross-matches, so one
\* value stands for the reads at all the positions past the end.
pastEndReads(i) ==
  IF readsPastEnd(i)
  THEN [index : DOMAIN target_descriptors, dist : {0, featureDistance(0, MaxFeature) + 1}]
  ELSE {[index |-> 0, dist |-> 0]}

\* descriptor sets of up to size descriptors; the set may hold none
DescriptorSets(size) ==
  UNION {[0..(len - 1) -> 0..MaxFeature] : len \in 0..size}

\* the same, listed in non-decreasing order of the feature value
OrderedDescriptorSets(size) ==
  {f \in DescriptorSets(size) : \A a, b \in DOMAIN f : a < b => f[a] <= f[b]}

SearchOrders == {"asc", "desc"}

\* the fields a descriptor set declares: none, or the descriptor field
FieldLists == {{}, {"descriptor"}}

\* a set that declares no field holds no descriptor
InitMatch ==
  /\ pc = "match"
  /\ source_fields \in FieldLists
  /\ target_fields \in FieldLists
  /\ source_descriptors \in OrderedDescriptorSets(MaxSource)
  /\ \/ target_descriptors \in OrderedDescriptorSets(MaxTarget)
     \/ target_descriptors = source_descriptors
  /\ source_fields = {} => source_descriptors = <<>>
  /\ target_fields = {} => target_descriptors = <<>>
  /\ \E order \in SearchOrders : source_tree = setInputCloud(source_descriptors, order)
  /\ \E order \in SearchOrders : target_tree = setInputCloud(target_descriptors, order)
  /\ correspondences = <<>>
  /\ source_keypoints = <<>>
  /\ target_keypoints = <<>>
  /\ inlier_threshold = 0
  /\ best_transformation = Identity
  /\ inliers = <<>>
  /\ estimated_transform = Zero
  /\ n = 0
  /\ keypoints = <<>>
  /\ confidence_threshold = 0
  /\ pairwise_transforms = <<>>
  /\ est_pos = 1
  /\ component = <<>>
  /\ span_tree = <<>>
  /\ reference_frame = 0
  /\ walk = <<>>
  /\ global_transforms = <<>>
  /\ clouds = <<>>
  /\ resolution = 1
  /\ merged = <<>>
  /\ included = {}
  /\ result = {}

\* the lists the loop over the source descriptors from i on may build: the
\* correspondence of each point, or none, in the order of the points
RECURSIVE matchFrom(_)
matchFrom(i) ==
  IF i >= cloudSize(source_descriptors) THEN {<<>>}
  ELSE {found \o rest : found \in {crossMatch(i, 0, past) : past \in pastEndReads(i)},
                        rest \in matchFrom(i + 1)}

\* whether assertDescriptorsPair lets the pair through: both sets declare a
\* field
assertDescriptorsPair(source, target) == ~(source = {} \/ target = {})

\* findFeatureCorrespondences throws: a set declares no field
ThrowDescriptorsPair ==
  /\ pc = "match"
  /\ ~assertDescriptorsPair(source_fields, target_fields)
  /\ pc' = "thrown"
  /\ UNCHANGED matchVars
  /\ UNCHANGED mergeVars
  /\ UNCHANGED fitVars

\* findFeatureCorrespondences: the loop runs over all the source descriptors
\* and the list is returned
FindFeatureCorrespondences ==
  /\ pc = "match"
  /\ assertDescriptorsPair(source_fields, target_fields)
  /\ correspondences' \in matchFrom(0)
  /\ pc' = "matched"
  /\ UNCHANGED <<source_fields, target_fields, source_descriptors, target_descriptors,
                 source_tree, target_tree>>
  /\ UNCHANGED mergeVars
  /\ UNCHANGED fitVars

\* a read past the end of k_indices stops a build that checks vector bounds.
\* With no target descriptor the first read is already past the end, and the
\* back search it feeds has no descriptor to start from: the run stops.
AbortMatch ==
  /\ pc = "match"
  /\ assertDescriptorsPair(source_fields, target_fields)
  /\ \E i \in DOMAIN source_descriptors : readsPastEnd(i)
  /\ pc' = "aborted"
  /\ UNCHANGED matchVars
  /\ UNCHANGED mergeVars
  /\ UNCHANGED fitVars

NextMatch == ThrowDescriptorsPair \/ FindFeatureCorrespondences \/ AbortMatch

SpecMatch == InitMatch /\ [][NextMatch]_vars

\* ------------------------------------------ transform from correspondences
\* Keypoints lie on a line, at whole steps of a grid; a rigid transform is a
\* translation along the line, Mat(w, b, w) for the translation by b / w.
Abs(x) == IF x < 0 THEN 0 - x ELSE x

RECURSIVE GCD(_, _)
GCD(x, y) == IF y = 0 THEN x ELSE GCD(y, x % y)

\* the translation by num / den, in lowest terms
Translation(num, den) ==
  LET g == GCD(Abs(num), den)
  IN Mat(den \div g, num \div g, den \div g)

\* Eigen's isIdentity(prec): the diagonal equals one and what is off the
\* diagonal is not larger than prec
isIdentityWithin(m, prec) ==
  ~m.nan /\ m.w > 0 /\ m.a = m.w /\ Abs(m.b) <= prec * m.w

\* how far the target keypoint of a correspondence lies from its source keypoint
offset(source, target, c) == target[c.index_match] - source[c.index_query]

\* the correspondences a translation by t maps within the threshold
consensus(source, target, corrs, t, threshold) ==
  LET within(c) == Abs(offset(source, target, c) - t) <= threshold
  IN SelectSeq(corrs, within)

\* what the consensus search hands back: no model (the identity and the
\* original correspondences), or the translation one sampled correspondence
\* fixes, with the correspondences that agree with it
getCorrespondences(source, target, corrs, threshold) ==
  {[best |-> Identity, remaining |-> corrs]} \cup
  {[best |-> Mat(1, offset(source, target, corrs[p]), 1),
    remaining |-> consensus(source, target, corrs,
                            offset(source, target, corrs[p]), threshold)] :
     p \in DOMAIN corrs}

RECURSIVE offsetSum(_, _, _, _)
offsetSum(source, target, corrs, p) ==
  IF p > Len(corrs) THEN 0
  ELSE offset(source, target, corrs[p]) + offsetSum(source, target, corrs, p + 1)

\* the fit that takes the first correspondence alone
estimateRigidTransformationFirst(source, target, corrs) ==
  Translation(offset(source, target, corrs[1]), 1)

\* TransformationEstimationSVD: the least-squares translation, the mean offset
estimateRigidTransformation(source, target, corrs) ==
  Translation(offsetSum(source, target, corrs, 1), Len(corrs))

estimateTransformFromCorrespondences(source, target, found) ==
  IF isIdentityWithin(found.best, IdentityPrecision)
  THEN [result |-> Zero, inliers |-> <<>>]
  ELSE [result |-> estimateRigidTransformation(source, target, found.remaining),
        inliers |-> found.remaining]

\* the correspondences (i, i) for the indices of the set, in ascending order
pairsOf(count, indices) ==
  LET all == [p \in 1..count |-> [index_query |-> p - 1, index_match |-> p - 1, distance |-> 0]]
      chosen(c) == c.index_query \in indices
  IN SelectSeq(all, chosen)

InitFit ==
  /\ pc = "fit"
  /\ \E count \in 1..MaxKeypoints :
       /\ source_keypoints = [i \in 0..(count - 1) |-> i]
       /\ target_keypoints \in [0..(count - 1) -> 0..MaxPosition]
       /\ \E indices \in SUBSET (0..(count - 1)) : correspondences = pairsOf(count, indices)
  /\ inlier_threshold \in 0..MaxInlierThreshold
  /\ best_transformation = Identity
  /\ inliers = <<>>
  /\ estimated_transform = Zero
  /\ source_fields = {}
  /\ target_fields = {}
  /\ source_descriptors = <<>>
  /\ target_descriptors = <<>>
  /\ source_tree = <<>>
  /\ target_tree = <<>>
  /\ n = 0
  /\ keypoints = <<>>
  /\ confidence_threshold = 0
  /\ pairwise_transforms = <<>>
  /\ est_pos = 1
  /\ component = <<>>
  /\ span_tree = <<>>
  /\ reference_frame = 0
  /\ walk = <<>>
  /\ global_transforms = <<>>
  /\ clouds = <<>>
  /\ resolution = 1
  /\ merged = <<>>
  /\ included = {}
  /\ result = {}

EstimateTransformFromCorrespondences ==
  /\ pc = "fit"
  /\ \E found \in getCorrespondences(source_keypoints, target_keypoints,
                                     correspondences, inlier_threshold) :
       LET out == estimateTransformFromCorrespondences(source_keypoints,
                                                       target_keypoints, found)
       IN /\ best_transformation' = found.best
          /\ inliers' = out.inliers
          /\ estimated_transform' = out.result
  /\ pc' = "estimated"
  /\ UNCHANGED <<source_keypoints, target_keypoints, inlier_threshold>>
  /\ UNCHANGED mergeVars
  /\ UNCHANGED matchVars

SpecFit == InitFit /\ [][EstimateTransformFromCorrespondences]_vars

\* ------------------------------------------------------------------ claims
afterGlobal == pc \in {"compose", "done", "error"}

\* the stored estimate of the component for the pair of a tree edge
storedEstimate(edge) ==
  component[CHOOSE k \in DOMAIN component :
              {component[k].source_idx, component[k].target_idx} = {edge.from, edge.to}]

Reached == {reference_frame} \cup {walk[k].to : k \in DOMAIN walk}

\* every estimate is a rigid transform with a finite confidence: no estimator
\* failure and no zero score is involved
allEstimatesSound ==
  \A k \in DOMAIN pairwise_transforms :
    /\ pairwise_transforms[k].transform \in Rigid
    /\ ~isInfinite(pairwise_transforms[k].confidence)

\* C1 as stated: the root holds the identity and, for every tree edge
\* (from, to) of the walk, global[to] = global[from] * E, E being the stored
\* transform when it is stored as (source = from, target = to) and its
\* inverse when it is stored reversed (read on runs whose estimates are all
\* rigid with finite confidence)
C1_StoredDirectionAsIs ==
  (afterGlobal /\ allEstimatesSound) =>
    /\ global_transforms[reference_frame] = Identity
    /\ \A k \in DOMAIN walk :
         LET edge == walk[k]
             est == storedEstimate(edge)
             E == IF est.source_idx = edge.from THEN est.transform
                  ELSE Inverse(est.transform)
         IN global_transforms[edge.to] = Mul(global_transforms[edge.from], E)

\* C1 amended: the root holds the identity and, for every tree edge
\* (from, to) of the walk, global[to] = global[from] * E, E being the inverse
\* of the stored transform when it is stored as (source = from, target = to)
\* and the stored transform itself when it is stored reversed
C1_Propagation ==
  afterGlobal =>
    /\ global_transforms[reference_frame] = Identity
    /\ \A k \in DOMAIN walk :
         LET edge == walk[k]
             est == storedEstimate(edge)
             E == IF est.source_idx = edge.from THEN Inverse(est.transform)
                  ELSE est.transform
         IN global_transforms[edge.to] = Mul(global_transforms[edge.from], E)

\* C1 witness: a walk with an edge stored in its own direction below a node
\* whose global transform is not the identity, and an edge stored reversed,
\* both with transforms that differ from their inverses
C1_Witness ==
  /\ afterGlobal
  /\ \E k \in DOMAIN walk :
       LET est == storedEstimate(walk[k])
       IN /\ est.source_idx = walk[k].from
          /\ est.transform \in Rigid
          /\ Inverse(est.transform) # est.transform
          /\ global_transforms[walk[k].from] \in Rigid \ {Identity}
  /\ \E k \in DOMAIN walk :
       LET est == storedEstimate(walk[k])
       IN /\ est.source_idx = walk[k].to
          /\ est.transform \in Rigid
          /\ Inverse(est.transform) # est.transform

\* C2 as stated: for N >= 1 maps the table has exactly N entries, so
\* composeMaps on the same maps and that table never raises the size error
C2_TableCoversAllMaps ==
  n >= 1 =>
    /\ afterGlobal => tableSize(global_transforms) = n
    /\ pc # "error"

\* C3 as stated: exactly one entry of the table is the identity, it is the
\* reference node's, and every node the walk did not reach holds the sentinel
\* (read on runs whose estimates are all rigid with finite confidence)
C3_ExactlyOneIdentity ==
  (afterGlobal /\ allEstimatesSound) =>
    /\ Cardinality({i \in DOMAIN global_transforms : isIdentity(global_transforms[i])}) = 1
    /\ isIdentity(global_transforms[reference_frame])
    /\ \A i \in DOMAIN global_transforms : i \notin Reached => isZero(global_transforms[i])

\* C3 amended: the reference node (the first tree center) holds the identity,
\* and every node the walk did not reach, hence every node outside the
\* largest connected component, holds the all-zero sentinel
C3_ReferenceAndUnreached ==
  afterGlobal =>
    /\ reference_frame \in DOMAIN global_transforms
    /\ isIdentity(global_transforms[reference_frame])
    /\ \A i \in DOMAIN global_transforms :
         (i \notin Reached
            \/ i \notin largestComponentNodes(pairwise_transforms, confidence_threshold))
         => isZero(global_transforms[i])

\* C3 witness: a table with a reached node besides the reference node and a
\* node outside the component
C3_Witness ==
  /\ afterGlobal
  /\ walk # <<>>
  /\ \E i \in DOMAIN global_transforms : i \notin Reached

\* C4: a single map yields no pairwise estimate and the table <<identity>>,
\* and composeMaps returns that map alone, down-sampled
C4_SingleMap ==
  (n = 1 /\ afterGlobal) =>
    /\ pairwise_transforms = <<>>
    /\ DOMAIN global_transforms = {0}
    /\ isIdentity(global_transforms[0])
    /\ pc # "error"
    /\ pc = "done" =>
         /\ included = {0}
         /\ merged = clouds[0]
         /\ result = downSample(clouds[0], resolution)

\* C4 witness: the single map has been composed
C4_Witness == n = 1 /\ pc = "done" /\ included = {0} /\ result # {}

\* C5: pair generation yields exactly one estimate per unordered pair of maps
\* that both have keypoints, none for another pair, each with source < target
C5_PairGeneration ==
  pc # "generate" =>
    LET qualifying == {p \in (0..(n - 1)) \X (0..(n - 1)) :
                         p[1] < p[2] /\ keypoints[p[1]] /\ keypoints[p[2]]}
        made == {<<pairwise_transforms[k].source_idx, pairwise_transforms[k].target_idx>> :
                   k \in DOMAIN pairwise_transforms}
    IN /\ made = qualifying
       /\ Len(pairwise_transforms) = Cardinality(qualifying)
       /\ \A k \in DOMAIN pairwise_transforms :
            pairwise_transforms[k].source_idx < pairwise_transforms[k].target_idx

\* C5 witness: several pairs generated while a map without keypoints is left out
C5_Witness ==
  /\ pc = "estimate"
  /\ Len(pairwise_transforms) >= 3
  /\ \E i \in 0..(n - 1) : ~keypoints[i]

\* C6 as stated: no Transform Estimate ever stores an infinite confidence
\* (a transform score of 0 is treated as an error instead)
C6_NoInfiniteConfidence ==
  \A k \in DOMAIN pairwise_transforms : ~isInfinite(pairwise_transforms[k].confidence)

\* C7 as stated: an estimate whose transform is the all-zero sentinel carries
\* zero confidence, so under a positive threshold it is no edge of the
\* component and no global transform is chained through it (read on runs
\* without an infinite confidence)
C7_FailedPairExcluded ==
  (afterGlobal /\ confidence_threshold > 0) =>
    \A k \in DOMAIN pairwise_transforms :
      (/\ isZero(pairwise_transforms[k].transform)
       /\ \A x \in DOMAIN pairwise_transforms : ~isInfinite(pairwise_transforms[x].confidence)) =>
        /\ pairwise_transforms[k].confidence.num = 0
        /\ pairwise_transforms[k] \notin Range(component)
        /\ \A w \in DOMAIN walk :
             {walk[w].from, walk[w].to} #
               {pairwise_transforms[k].source_idx, pairwise_transforms[k].target_idx}

\* the clouds composeMaps is specified to accumulate, from map i on
RECURSIVE expectedMerge(_)
expectedMerge(i) ==
  IF i >= n THEN <<>>
  ELSE (IF isZero(global_transforms[i]) THEN <<>>
        ELSE transformPointCloud(clouds[i], global_transforms[i])) \o expectedMerge(i + 1)

\* C8: given as many transforms as maps, composeMaps accumulates the
\* transformed points of exactly the maps whose transform is not the sentinel;
\* all sentinel gives the empty cloud, one identity among sentinels gives that
\* map down-sampled
C8_ComposeMaps ==
  pc = "done" =>
    /\ included = {i \in 0..(n - 1) : ~isZero(global_transforms[i])}
    /\ merged = expectedMerge(0)
    /\ result = downSample(merged, resolution)
    /\ (\A i \in 0..(n - 1) : isZero(global_transforms[i])) => result = {}
    /\ \A i \in 0..(n - 1) :
         (/\ isIdentity(global_transforms[i])
          /\ \A j \in (0..(n - 1)) \ {i} : isZero(global_transforms[j]))
         => result = downSample(clouds[i], resolution)

\* C8 witness: one map under the identity composed among sentinel maps
C8_Witness ==
  /\ pc = "done"
  /\ n >= 3
  /\ \E i \in 0..(n - 1) :
       /\ isIdentity(global_transforms[i])
       /\ \A j \in (0..(n - 1)) \ {i} : isZero(global_transforms[j])
       /\ included = {i}
       /\ result = downSample(clouds[i], resolution)

\* fewer than k descriptors of the cloud are strictly nearer to the query
\* than descriptor idx: idx is among the k nearest neighbours of the query
amongNearest(cloud, query, idx) ==
  Cardinality({a \in DOMAIN cloud :
                 featureDistance(cloud[a], query) < featureDistance(cloud[idx], query)})
    < matching_k

\* C9: the returned list has at most one correspondence per source index, so
\* no more than there are source descriptors; every one (i, m, d) is reciprocal (m
\* among the k nearest targets of source i, i among the k nearest sources of
\* target m), d is their distance, and no forward neighbour of i that passes
\* the reciprocal check is nearer than m
C9_Correspondences ==
  pc = "matched" =>
  /\ Len(correspondences) <= cloudSize(source_descriptors)
  /\ \A p, q \in DOMAIN correspondences :
       p # q => correspondences[p].index_query # correspondences[q].index_query
  /\ \A p \in DOMAIN correspondences :
       LET i == correspondences[p].index_query
           m == correspondences[p].index_match
       IN /\ i \in DOMAIN source_descriptors
          /\ m \in DOMAIN target_descriptors
          /\ correspondences[p].distance =
               featureDistance(source_descriptors[i], target_descriptors[m])
          /\ amongNearest(target_descriptors, source_descriptors[i], m)
          /\ m \in Range(forwardSearch(i))
          /\ amongNearest(source_descriptors, target_descriptors[m], i)
          /\ i \in Range(backwardSearch(m))
          /\ \A other \in Range(forwardSearch(i)) :
               i \in Range(backwardSearch(other)) =>
                 correspondences[p].distance <=
                   featureDistance(source_descriptors[i], target_descriptors[other])

\* C9 witness: a returned result in which a source point is matched to a
\* forward neighbour that is not the first one (the first one does not
\* cross-match), next to correspondences of other source points
C9_Witness ==
  /\ pc = "matched"
  /\ Len(correspondences) >= 2
  /\ \E p \in DOMAIN correspondences :
       forwardSearch(correspondences[p].index_query)[0] # correspondences[p].index_match

\* C10 as stated: identical descriptor sets of any size, with or without
\* duplicate descriptors, yield exactly one correspondence per point, each
\* (i, i, 0)
C10_IdentityMatches ==
  (pc = "matched" /\ target_descriptors = source_descriptors) =>
    /\ Len(correspondences) = cloudSize(source_descriptors)
    /\ \A p \in DOMAIN correspondences :
         correspondences[p] = [index_query |-> p - 1, index_match |-> p - 1, distance |-> 0]

\* how many descriptors of the set hold the value of descriptor idx
copies(cloud, idx) == Cardinality({a \in DOMAIN cloud : cloud[a] = cloud[idx]})

\* C10 amended: on identical descriptor sets the loop reads no vector past
\* its end, every correspondence has distance 0 and maps i to an index that
\* holds the same descriptor, which is i itself when the descriptor is unique;
\* there is exactly one correspondence per point when no descriptor occurs
\* more than k times
C10_IdenticalSets ==
  target_descriptors = source_descriptors =>
    /\ pc # "aborted"
    /\ \A p \in DOMAIN correspondences :
         LET i == correspondences[p].index_query
             m == correspondences[p].index_match
         IN /\ correspondences[p].distance = 0
            /\ source_descriptors[m] = source_descriptors[i]
            /\ copies(source_descriptors, i) = 1 => m = i
    /\ (pc = "matched"
        /\ \A a \in DOMAIN source_descriptors : copies(source_descriptors, a) <= matching_k)
       => /\ Len(correspondences) = cloudSize(source_descriptors)
          /\ \A p \in DOMAIN correspondences : correspondences[p].index_query = p - 1

\* C10 witness: identical sets of pairwise distinct descriptors matched
\* point for point
C10_Witness ==
  /\ pc = "matched"
  /\ target_descriptors = source_descriptors
  /\ cloudSize(source_descriptors) >= 3
  /\ \A a \in DOMAIN source_descriptors : copies(source_descriptors, a) = 1
  /\ \A p \in DOMAIN correspondences :
       correspondences[p] = [index_query |-> p - 1, index_match |-> p - 1, distance |-> 0]
  /\ Len(correspondences) = cloudSize(source_descriptors)

\* C11: a call of findFeatureCorrespondences with no descriptor on the source
\* side or on the target side does not return a correspondence list; it ends
\* with the error
C11_EmptySetsRaise ==
  (source_descriptors = <<>> \/ target_descriptors = <<>>) => pc # "matched"

\* the squared residuals of the correspondences under the translation by
\* num / den, times den * den
residual(corrs, num, den) ==
  LET RECURSIVE from(_)
      from(p) ==
        IF p > Len(corrs) THEN 0
        ELSE LET e == den * offset(source_keypoints, target_keypoints, corrs[p]) - num
             IN e * e + from(p + 1)
  IN from(1)

\* the correspondences the best transformation maps within the inlier threshold
bestConsensus ==
  LET agrees(c) ==
        Abs(best_transformation.w * offset(source_keypoints, target_keypoints, c)
            - best_transformation.b) <= inlier_threshold * best_transformation.w
  IN SelectSeq(correspondences, agrees)

\* the result is the least-squares translation of the inliers handed back
\* (every other translation leaves a larger sum of squared residuals), and
\* they are the consensus set of the best transformation
fitOfInliers ==
  /\ inliers = bestConsensus
  /\ inliers # <<>>
  /\ estimated_transform.w > 0
  /\ estimated_transform.a = estimated_transform.w
  /\ \A den \in 1..MaxKeypoints :
       \A num \in (0 - MaxKeypoints * den)..(MaxPosition * den) :
         \/ num * estimated_transform.w = estimated_transform.b * den
         \/ den * den * residual(inliers, estimated_transform.b, estimated_transform.w)
              < estimated_transform.w * estimated_transform.w * residual(inliers, num, den)

\* C12 as stated: the all-zero transform and no inliers when the best
\* transformation is the identity, and in every other case the least-squares
\* fit of the inliers together with them
C12_IdentityOnly ==
  pc = "estimated" =>
    IF best_transformation = Identity
    THEN isZero(estimated_transform) /\ inliers = <<>>
    ELSE fitOfInliers

\* C12 amended: the all-zero transform and no inliers when the best
\* transformation is the identity within the precision of the comparison, and
\* in every other case the least-squares fit of the inliers together with them
C12_IdentityWithinPrecision ==
  pc = "estimated" =>
    IF isIdentityWithin(best_transformation, IdentityPrecision)
    THEN isZero(estimated_transform) /\ inliers = <<>>
    ELSE fitOfInliers

\* C12 witness: a model away from the identity whose inliers leave a
\* correspondence out and do not share one offset: the fit is their mean
C12_Witness ==
  /\ pc = "estimated"
  /\ ~isIdentityWithin(best_transformation, IdentityPrecision)
  /\ Len(inliers) >= 2
  /\ Len(inliers) < Len(correspondences)
  /\ estimated_transform.w > 1
  /\ estimated_transform # best_transformation

\* the tree without its k-th edge
withoutEdge(tree, k) == SubSeq(tree, 1, k - 1) \o SubSeq(tree, k + 1, Len(tree))

\* C13: the spanning tree of the largest connected component of the
\* thresholded graph has one edge less than the component has nodes, its
\* edges are estimates of the component, it connects all the nodes of the
\* component and has no cycle (every edge is the only link between its two
\* ends), and the breadth-first walk from the chosen center reaches every
\* node of the component exactly once
C13_SpanningTree ==
  afterGlobal =>
    LET nodes == componentNodes(component)
    IN /\ nodes = largestComponentNodes(pairwise_transforms, confidence_threshold)
       /\ Len(span_tree) = Cardinality(nodes) - 1
       /\ Range(span_tree) \subseteq Range(component)
       /\ \A u \in nodes : Connected({u}, span_tree) = nodes
       /\ \A k \in DOMAIN span_tree :
            span_tree[k].target_idx
              \notin Connected({span_tree[k].source_idx}, withoutEdge(span_tree, k))
       /\ reference_frame \in nodes
       /\ Reached = nodes
       /\ Len(walk) = Cardinality(nodes) - 1
       /\ \A p, q \in DOMAIN walk :
            /\ walk[p].to # reference_frame
            /\ p # q => walk[p].to # walk[q].to

\* C13 witness: a component of three maps or more that holds a cycle, with a
\* map left outside of it
C13_Witness ==
  /\ afterGlobal
  /\ Cardinality(componentNodes(component)) >= 3
  /\ Len(component) > Len(span_tree)
  /\ Cardinality(componentNodes(component)) < n

\* C14: for an empty list of maps the bound of the outer loop of the pair
\* generation, clouds.size() - 1, does not wrap around to the largest
\* unsigned value: the body of the outer loop never runs and no pair is emitted
C14_EmptyListNoWrap ==
  (pc # "generate" /\ n = 0) =>
    /\ SizeT(n - 1) # 2 ^ SizeBits - 1
    /\ outerLoopPasses(n, 0) = 0
    /\ pairwise_transforms = <<>>

====
